---- MODULE Spec2Model ----
(***************************************************************************)
(* Model of ccy_data.py: the cryptocompare run loop                        *)
(* (download_cryptocompare_csvs over download_cryptocompare_exchange,      *)
(* dl_cryptocompare_history, parse_cryptocompare_pairs and relabel), the   *)
(* relabel function on its own, and the kraken pagination loop             *)
(* (concat_kraken_data over download_kraken_pair).                         *)
(*                                                                         *)
(* A DataFrame is a record [cols, rows]: cols is the sequence of column    *)
(* labels, rows a function from the row's date to the sequence of cell     *)
(* values, one per column.  Column labels are strings and are built with   *)
(* string concatenation, as the code builds them.                          *)
(***************************************************************************)
EXTENDS Integers, Sequences, FiniteSets, TLC

VARIABLES
    \* ---- download_cryptocompare_csvs / download_cryptocompare_exchange
    pc,             \* position of the run loop
    listing,        \* os.listdir('.'): set of <<root, ext>> file names
    newFiles,       \* files under new/: exchange name -> currencies merged at write
    exchanges,      \* the catalog: sequence of [name, pairs]
    available_cryptocurrencies,
    done,           \* the completed list of line 139
    exIdx,          \* index of the exchange of the outer loop
    exchange_df,    \* the exchange's table
    curIdx,         \* index into target_currencies
    ccys,           \* symbols the per-symbol loop has still to visit
    ccy,            \* the upper-cased symbol being processed
    ccy_df,         \* the frame dl_cryptocompare_history returned
    ex_df,          \* the per-currency table
    error,          \* which exception ended the run ("none" when none)
    fetchLog,       \* history: requests made in this run
    nFetch,         \* history: number of history fetches of this run
    sinceFetch,     \* history: time slept since the last history fetch
    aggregated,     \* history: exchanges download_cryptocompare_exchange ran for
    written,        \* history: exchanges whose csv this run wrote
    filesAtStart,   \* history: exchanges with a csv under new/ when the run began
    \* ---- relabel on its own
    r_pc,           \* "call" before relabel ran, then "out" or "raised"
    r_cols,         \* list(df): the column labels of the frame passed in
    r_affix, r_sep, r_pre,      \* the parameters affix, sep and pre
    r_out,          \* the column labels of the frame relabel returned
    \* ---- concat_kraken_data / download_kraken_pair
    k_pc,           \* position of concat_kraken_data
    k_i,            \* the loop index i of line 205
    since,          \* the cursor variable of concat_kraken_data
    k_df,           \* number of rows of ex_df, the accumulated series
    k_this,         \* number of rows of this_df, the last chunk
    k_arg,          \* history: the since argument of the latest call
    k_ret,          \* history: the cursor the call before the latest returned
    k_last,         \* history: the cursor the latest call returned
    k_calls,        \* history: number of download_kraken_pair calls
    k_slept         \* history: time slept since the latest call

runVars == <<pc, listing, newFiles, exchanges, available_cryptocurrencies, done,
             exIdx, exchange_df, curIdx, ccys, ccy, ccy_df, ex_df, error,
             fetchLog, nFetch, sinceFetch, aggregated, written, filesAtStart>>
relabelVars == <<r_pc, r_cols, r_affix, r_sep, r_pre, r_out>>
krakenVars == <<k_pc, k_i, since, k_df, k_this, k_arg, k_ret, k_last,
                k_calls, k_slept>>
vars == <<runVars, relabelVars, krakenVars>>

-----------------------------------------------------------------------------
(* Bounds *)

\* histories cover the days a..MaxDate, for a in 1..MaxDate
MaxDate == 2
\* longest column list handed to relabel on its own
MaxCols == 3
\* most rows in one kraken chunk
MaxRows == 2
\* largest kraken cursor value
MaxCursor == 2

-----------------------------------------------------------------------------
(* Helpers on sequences *)

Range(s) == {s[i] : i \in 1..Len(s)}

Distinct(s) == \A i, j \in 1..Len(s) : i # j => s[i] # s[j]

RECURSIVE SeqsUpTo(_, _)
\* the sequences of pairwise distinct elements of S, of length at most n
SeqsUpTo(S, n) ==
    IF n = 0 THEN {<<>>}
    ELSE LET shorter == SeqsUpTo(S, n - 1)
         IN  shorter \cup
                UNION {{Append(s, x) : x \in S \ Range(s)} :
                          s \in {t \in shorter : Len(t) = n - 1}}

\* the NaN of a missing cell; every value of a record is a number >= 0
NoValue == -1

-----------------------------------------------------------------------------
(* DataFrames *)

\* pd.DataFrame(columns=['Date'])
EmptyFrame == [cols |-> <<"Date">>, rows |-> <<>>]

\* pd.DataFrame([])
NoDataFrame == [cols |-> <<>>, rows |-> <<>>]

\* DataFrame.empty: some axis has length 0
Empty(df) == Len(df.cols) = 0 \/ DOMAIN df.rows = {}

Dates(df) == DOMAIN df.rows

\* the positions of the columns other than Date
NonDate(cols) ==
    SelectSeq([i \in 1..Len(cols) |-> i], LAMBDA i : cols[i] # "Date")

Pick(row, idx) == [j \in 1..Len(idx) |-> row[idx[j]]]

\* labels of a merge side: a label both sides carry takes the side's suffix
Suffixed(cols, other, suffix) ==
    [i \in 1..Len(cols) |->
        IF cols[i] # "Date" /\ cols[i] \in (Range(other) \ {"Date"})
        THEN cols[i] \o suffix ELSE cols[i]]

MergeInner(l, r) ==
    LET ridx == NonDate(r.cols)
    IN  [cols |-> Suffixed(l.cols, r.cols, "_x")
                    \o Pick(Suffixed(r.cols, l.cols, "_y"), ridx),
         rows |-> [d \in Dates(l) \cap Dates(r) |->
                      l.rows[d] \o Pick(r.rows[d], ridx)]]

\* pd.merge(l, r, on='Date', how='outer'): one row per date of either side,
\* the left columns then the right columns without its Date, NaN where a side
\* has no row for the date; overlapping labels get the suffixes _x and _y
Merge(l, r) ==
    LET ridx == NonDate(r.cols)
        lrow(d) == IF d \in Dates(l) THEN l.rows[d]
                   ELSE [i \in 1..Len(l.cols) |->
                            IF l.cols[i] = "Date" THEN d ELSE NoValue]
        rrow(d) == IF d \in Dates(r) THEN Pick(r.rows[d], ridx)
                   ELSE [j \in 1..Len(ridx) |-> NoValue]
    IN  [cols |-> Suffixed(l.cols, r.cols, "_x")
                    \o Pick(Suffixed(r.cols, l.cols, "_y"), ridx),
         rows |-> [d \in Dates(l) \cup Dates(r) |-> lrow(d) \o rrow(d)]]

\* lines 124-126: the Date column is taken out and inserted at the front
MoveDateFirst(df) ==
    LET idx == NonDate(df.cols)
    IN  [cols |-> <<"Date">> \o Pick(df.cols, idx),
         rows |-> [d \in Dates(df) |-> <<d>> \o Pick(df.rows[d], idx)]]

-----------------------------------------------------------------------------
(* relabel *)

\* the first rename of relabel: d = {'volumefrom': 'volume'+sep+'from', ...}
Canon(col, sep) ==
    CASE col = "volumefrom" -> "volume" \o sep \o "from"
      [] col = "volumeto"   -> "volume" \o sep \o "to"
      [] col = "time"       -> "Date"
      [] OTHER              -> col

CanonCols(cols, sep) == [i \in 1..Len(cols) |-> Canon(cols[i], sep)]

\* cols.remove('Date') raises ValueError when no column is called Date
RelabelOK(cols, sep) == "Date" \in Range(CanonCols(cols, sep))

\* cols.remove('Date') removes the first Date only
RemoveFirstDate(cols) ==
    LET first == CHOOSE i \in 1..Len(cols) :
                    cols[i] = "Date" /\ \A j \in 1..(i - 1) : cols[j] # "Date"
    IN  SubSeq(cols, 1, first - 1) \o SubSeq(cols, first + 1, Len(cols))

AffixedAlwaysPrefix(col, affix, sep, pre) == affix \o sep \o col

Affixed(col, affix, sep, pre) ==
    IF pre THEN affix \o sep \o col ELSE col \o sep \o affix

\* the column labels relabel(df, affix, sep, pre) leaves; defined when RelabelOK
RelabelCols(cols, affix, sep, pre) ==
    LET c1 == CanonCols(cols, sep)
        renamed == Range(RemoveFirstDate(c1))
    IN  [i \in 1..Len(c1) |->
            IF c1[i] \in renamed THEN Affixed(c1[i], affix, sep, pre) ELSE c1[i]]

relabel(df, affix, sep, pre) ==
    [cols |-> RelabelCols(df.cols, affix, sep, pre), rows |-> df.rows]

-----------------------------------------------------------------------------
(* The sources the run loop reads *)

\* line 130
target_currencies == <<"USD", "BTC">>

\* line 59: the default of parse_cryptocompare_pairs' currency parameter
DefaultCurrency == "USD"

\* str.upper() on the symbols of the catalogs below
Upper(s) ==
    CASE s \in {"ab", "Ab", "aB", "AB"} -> "AB"
      [] s \in {"cd", "CD"}             -> "CD"
      [] s = "ef"                       -> "EF"
      [] OTHER                          -> s

\* the columns of a histoday record (a representative subset of its fields)
RawCols == <<"close", "time", "volumefrom", "volumeto">>

\* a payload whose records carry no time field
NoTimeCols == <<"close">>

RawValue(col, d) ==
    CASE col = "time"       -> d
      [] col = "close"      -> 100 + d
      [] col = "volumefrom" -> 200 + d
      [] col = "volumeto"   -> 300 + d
      [] OTHER              -> 400 + d

\* pd.DataFrame(data) of line 100 for records of the given days
HistFrame(cols, days) ==
    [cols |-> cols,
     rows |-> [d \in days |-> [i \in 1..Len(cols) |-> RawValue(cols[i], d)]]]

\* daily histories end today and differ in how far back they reach
Histories == {a..MaxDate : a \in 1..MaxDate}

\* what dl_cryptocompare_history can return
Frames ==
    {HistFrame(RawCols, ds) : ds \in Histories}
        \cup {NoDataFrame, HistFrame(NoTimeCols, {MaxDate})}

\* download_cryptocompare_exchanges() with download_cryptocompare_currencies()
Catalogs ==
    { [exchanges |->
          << [name |-> "Kraken",
              pairs |-> ("ab" :> {"USD"}) @@ ("cd" :> {"BTC"})],
             [name |-> "Poloniex",
              pairs |-> ("CD" :> {"USD", "BTC"}) @@ ("ef" :> {"USD"})] >>,
       available |-> {"ab", "cd", "CD"}],
      [exchanges |->
          << [name |-> "Kraken",
              pairs |-> ("ab" :> {"USD"}) @@ ("Ab" :> {"USD"})
                          @@ ("aB" :> {"USD"}) @@ ("AB" :> {"USD"})],
             [name |-> "Poloniex",
              pairs |-> ("cd" :> {"BTC"})] >>,
       available |-> {"ab", "Ab", "aB", "AB", "cd"}] }

\* what os.listdir('.') can hold: file names as <<root, ext>>
Listings ==
    { {},
      {<<"new", "">>},
      {<<"new", "">>, <<"Kraken", ".csv">>} }

ExchangeNames == {"Kraken", "Poloniex"}

-----------------------------------------------------------------------------
(* Pure parts of the run loop *)

\* lines 59-71; the value False stands for the empty result
parse_cryptocompare_pairs(cryptocurrencies, currency) ==
    {c \in DOMAIN cryptocurrencies : currency \in cryptocurrencies[c]}

\* line 150: the call passes no currency, so the default is used
PairsForCurrency(cryptocurrencies, currency) ==
    parse_cryptocompare_pairs(cryptocurrencies, DefaultCurrency)

\* line 139: both parts of os.path.splitext of every listed name
DoneOf(fps) == UNION {{fp[1], fp[2]} : fp \in fps}

InDoneNever(exchange, completed) == FALSE

\* line 144
InDone(exchange, completed) == exchange \in completed

CurrenciesLeftFirstOnly(i) == i <= 1

\* line 148: the loop over target_currencies has an iteration left
CurrenciesLeft(i) == i <= Len(target_currencies)

\* lines 117 and 121
SleepSecs == 1

PcAfterEmptyNoSleep == "symbol"

\* lines 114-118: the empty branch sleeps before it continues
PcAfterEmpty == "sleep"

\* line 167 writes under new/, which to_csv does not create
NewDirExists(fps) == \E fp \in fps : fp[1] \o fp[2] = "new"

MergeSymbolInner(l, r) == MergeInner(l, r)

\* line 120
MergeSymbol(l, r) == Merge(l, r)

\* lines 158-159
MergeCurrency(l, r) == Merge(l, r)

Exchange == exchanges[exIdx].name
Currency == target_currencies[curIdx]

-----------------------------------------------------------------------------
(* The run loop: download_cryptocompare_csvs *)

RunLocalsReset ==
    /\ exchange_df' = EmptyFrame
    /\ curIdx' = 1
    /\ ccys' = {}
    /\ ccy' = ""
    /\ ccy_df' = NoDataFrame
    /\ ex_df' = EmptyFrame

RunIdle ==
    /\ pc = "idle"
    /\ listing = {}
    /\ newFiles = <<>>
    /\ exchanges = <<>>
    /\ available_cryptocurrencies = {}
    /\ done = {}
    /\ exIdx = 1
    /\ exchange_df = EmptyFrame
    /\ curIdx = 1
    /\ ccys = {}
    /\ ccy = ""
    /\ ccy_df = NoDataFrame
    /\ ex_df = EmptyFrame
    /\ error = "none"
    /\ fetchLog = {}
    /\ nFetch = 0
    /\ sinceFetch = 0
    /\ aggregated = {}
    /\ written = {}
    /\ filesAtStart = {}

Abort(why) ==
    /\ pc' = "aborted"
    /\ error' = why
    /\ exIdx' = 1
    /\ RunLocalsReset

\* lines 130-139: the catalog is read and the completed list computed
StartRun ==
    /\ pc = "start"
    /\ done' = DoneOf(listing)
    /\ filesAtStart' = DOMAIN newFiles
    /\ pc' = "exchange"
    /\ UNCHANGED <<relabelVars, krakenVars, listing, newFiles, exchanges, available_cryptocurrencies,
                   exIdx, exchange_df, curIdx, ccys, ccy, ccy_df, ex_df, error,
                   fetchLog, nFetch, sinceFetch, aggregated, written>>

\* lines 144-146
SkipDone ==
    /\ pc = "exchange"
    /\ exIdx <= Len(exchanges)
    /\ InDone(Exchange, done)
    /\ exIdx' = exIdx + 1
    /\ UNCHANGED <<relabelVars, krakenVars, pc, listing, newFiles, exchanges, available_cryptocurrencies,
                   done, exchange_df, curIdx, ccys, ccy, ccy_df, ex_df, error,
                   fetchLog, nFetch, sinceFetch, aggregated, written,
                   filesAtStart>>

\* line 147
BeginExchange ==
    /\ pc = "exchange"
    /\ exIdx <= Len(exchanges)
    /\ ~InDone(Exchange, done)
    /\ exchange_df' = EmptyFrame
    /\ curIdx' = 1
    /\ pc' = "currency"
    /\ UNCHANGED <<relabelVars, krakenVars, listing, newFiles, exchanges, available_cryptocurrencies,
                   done, exIdx, ccys, ccy, ccy_df, ex_df, error,
                   fetchLog, nFetch, sinceFetch, aggregated, written,
                   filesAtStart>>

\* line 143: the loop over the exchanges is over
FinishRun ==
    /\ pc = "exchange"
    /\ exIdx > Len(exchanges)
    /\ pc' = "done"
    /\ exIdx' = 1
    /\ UNCHANGED <<relabelVars, krakenVars, listing, newFiles, exchanges, available_cryptocurrencies,
                   done, exchange_df, curIdx, ccys, ccy, ccy_df, ex_df, error,
                   fetchLog, nFetch, sinceFetch, aggregated, written,
                   filesAtStart>>

\* lines 150-151: no symbol qualifies, the currency is skipped
SkipCurrency ==
    /\ pc = "currency"
    /\ CurrenciesLeft(curIdx)
    /\ PairsForCurrency(exchanges[exIdx].pairs, Currency) = {}
    /\ curIdx' = curIdx + 1
    /\ UNCHANGED <<relabelVars, krakenVars, pc, listing, newFiles, exchanges, available_cryptocurrencies,
                   done, exIdx, exchange_df, ccys, ccy, ccy_df, ex_df, error,
                   fetchLog, nFetch, sinceFetch, aggregated, written,
                   filesAtStart>>

\* lines 150-154 and 109: download_cryptocompare_exchange is entered
BeginCurrency ==
    /\ pc = "currency"
    /\ CurrenciesLeft(curIdx)
    /\ PairsForCurrency(exchanges[exIdx].pairs, Currency) # {}
    /\ ccys' = PairsForCurrency(exchanges[exIdx].pairs, Currency)
                  \cap available_cryptocurrencies
    /\ ex_df' = EmptyFrame
    /\ aggregated' = aggregated \cup {Exchange}
    /\ pc' = "symbol"
    /\ UNCHANGED <<relabelVars, krakenVars, listing, newFiles, exchanges, available_cryptocurrencies,
                   done, exIdx, exchange_df, curIdx, ccy, ccy_df, error,
                   fetchLog, nFetch, sinceFetch, written, filesAtStart>>

FetchBookkeeping(c) ==
    /\ ccys' = ccys \ {c}
    /\ fetchLog' = fetchLog \cup
          {[exchange |-> Exchange, symbol |-> c, currency |-> Currency]}
    /\ nFetch' = nFetch + 1
    /\ sinceFetch' = 0

\* lines 110-113, 98-101: one history request, answered with a frame
Fetch ==
    /\ pc = "symbol"
    /\ \E c \in ccys, df \in Frames :
          /\ FetchBookkeeping(c)
          /\ ccy' = Upper(c)
          /\ ccy_df' = df
    /\ pc' = "fetched"
    /\ UNCHANGED <<relabelVars, krakenVars, listing, newFiles, exchanges, available_cryptocurrencies,
                   done, exIdx, exchange_df, curIdx, ex_df, error,
                   aggregated, written, filesAtStart>>

\* lines 98-99: the response is no JSON or has no 'Data'; nothing catches it
FetchRaises ==
    /\ pc = "symbol"
    /\ \E c \in ccys : FetchBookkeeping(c)
    /\ pc' = "aborted"
    /\ error' = "fetch"
    /\ exIdx' = 1
    /\ exchange_df' = EmptyFrame
    /\ curIdx' = 1
    /\ ccy' = ""
    /\ ccy_df' = NoDataFrame
    /\ ex_df' = EmptyFrame
    /\ UNCHANGED <<relabelVars, krakenVars, listing, newFiles, exchanges, available_cryptocurrencies,
                   done, aggregated, written, filesAtStart>>

\* lines 114-118
SkipEmpty ==
    /\ pc = "fetched"
    /\ Empty(ccy_df)
    /\ pc' = PcAfterEmpty
    /\ ccy_df' = NoDataFrame
    /\ UNCHANGED <<relabelVars, krakenVars, listing, newFiles, exchanges, available_cryptocurrencies,
                   done, exIdx, exchange_df, curIdx, ccys, ccy, ex_df, error,
                   fetchLog, nFetch, sinceFetch, aggregated, written,
                   filesAtStart>>

\* lines 119-120
MergeFetched ==
    /\ pc = "fetched"
    /\ ~Empty(ccy_df)
    /\ RelabelOK(ccy_df.cols, "_")
    /\ ex_df' = MergeSymbol(ex_df, relabel(ccy_df, ccy, "_", TRUE))
    /\ pc' = "sleep"
    /\ ccy_df' = NoDataFrame
    /\ UNCHANGED <<relabelVars, krakenVars, listing, newFiles, exchanges, available_cryptocurrencies,
                   done, exIdx, exchange_df, curIdx, ccys, ccy, error,
                   fetchLog, nFetch, sinceFetch, aggregated, written,
                   filesAtStart>>

\* line 120: where the suffixes of the merge would repeat a label, a pandas
\* that refuses duplicate labels raises MergeError instead of producing them
MergeRaises ==
    /\ pc = "fetched"
    /\ ~Empty(ccy_df)
    /\ RelabelOK(ccy_df.cols, "_")
    /\ ~Distinct(MergeSymbol(ex_df, relabel(ccy_df, ccy, "_", TRUE)).cols)
    /\ Abort("merge")
    /\ UNCHANGED <<relabelVars, krakenVars, listing, newFiles, exchanges, available_cryptocurrencies,
                   done, fetchLog, nFetch, sinceFetch, aggregated, written,
                   filesAtStart>>

\* lines 119, 38-39: the frame has no time column, cols.remove raises
RelabelRaises ==
    /\ pc = "fetched"
    /\ ~Empty(ccy_df)
    /\ ~RelabelOK(ccy_df.cols, "_")
    /\ Abort("relabel")
    /\ UNCHANGED <<relabelVars, krakenVars, listing, newFiles, exchanges, available_cryptocurrencies,
                   done, fetchLog, nFetch, sinceFetch, aggregated, written,
                   filesAtStart>>

\* lines 117 and 121
Sleep ==
    /\ pc = "sleep"
    /\ sinceFetch' = SleepSecs
    /\ pc' = "symbol"
    /\ UNCHANGED <<relabelVars, krakenVars, listing, newFiles, exchanges, available_cryptocurrencies,
                   done, exIdx, exchange_df, curIdx, ccys, ccy, ccy_df, ex_df,
                   error, fetchLog, nFetch, aggregated, written, filesAtStart>>

\* the table download_cryptocompare_exchange returns, labelled at line 156
CcysDf == relabel(MoveDateFirst(ex_df), Currency, "_", FALSE)

\* lines 124-127 and 156-159: the per-symbol loop is over
EndCurrency ==
    /\ pc = "symbol"
    /\ ccys = {}
    /\ exchange_df' = MergeCurrency(exchange_df, CcysDf)
    /\ curIdx' = curIdx + 1
    /\ ex_df' = EmptyFrame
    /\ ccy' = ""
    /\ pc' = "currency"
    /\ UNCHANGED <<relabelVars, krakenVars, listing, newFiles, exchanges, available_cryptocurrencies,
                   done, exIdx, ccys, ccy_df, error,
                   fetchLog, nFetch, sinceFetch, aggregated, written,
                   filesAtStart>>

NextExchange ==
    /\ exIdx' = exIdx + 1
    /\ pc' = "exchange"
    /\ RunLocalsReset

\* lines 162-167: the exchange's csv is written
WriteCsv ==
    /\ pc = "currency"
    /\ ~CurrenciesLeft(curIdx)
    /\ ~Empty(exchange_df)
    /\ NewDirExists(listing)
    /\ newFiles' = [e \in DOMAIN newFiles \cup {Exchange} |->
                       IF e = Exchange
                       THEN SubSeq(target_currencies, 1, curIdx - 1)
                       ELSE newFiles[e]]
    /\ written' = written \cup {Exchange}
    /\ NextExchange
    /\ UNCHANGED <<relabelVars, krakenVars, listing, exchanges, available_cryptocurrencies, done, error,
                   fetchLog, nFetch, sinceFetch, aggregated, filesAtStart>>

\* line 166: to_csv raises when the directory new does not exist
WriteRaises ==
    /\ pc = "currency"
    /\ ~CurrenciesLeft(curIdx)
    /\ ~Empty(exchange_df)
    /\ ~NewDirExists(listing)
    /\ Abort("write")
    /\ UNCHANGED <<relabelVars, krakenVars, listing, newFiles, exchanges, available_cryptocurrencies,
                   done, fetchLog, nFetch, sinceFetch, aggregated, written,
                   filesAtStart>>

\* line 162: an empty exchange table produces no file
NoOutput ==
    /\ pc = "currency"
    /\ ~CurrenciesLeft(curIdx)
    /\ Empty(exchange_df)
    /\ NextExchange
    /\ UNCHANGED <<relabelVars, krakenVars, listing, newFiles, exchanges, available_cryptocurrencies,
                   done, error, fetchLog, nFetch, sinceFetch, aggregated,
                   written, filesAtStart>>

\* lines 247-248: the script is run again
Restart ==
    /\ pc \in {"done", "aborted"}
    /\ pc' = "start"
    /\ error' = "none"
    /\ done' = {}
    /\ fetchLog' = {}
    /\ nFetch' = 0
    /\ sinceFetch' = 0
    /\ aggregated' = {}
    /\ written' = {}
    /\ filesAtStart' = {}
    /\ UNCHANGED <<relabelVars, krakenVars, listing, newFiles, exchanges, available_cryptocurrencies,
                   exIdx, exchange_df, curIdx, ccys, ccy, ccy_df, ex_df>>

RelabelIdle ==
    /\ r_pc = "idle"
    /\ r_cols = <<>>
    /\ r_affix = ""
    /\ r_sep = ""
    /\ r_pre = TRUE
    /\ r_out = <<>>

KrakenIdle ==
    /\ k_pc = "idle"
    /\ k_i = 0
    /\ since = 0
    /\ k_df = 0
    /\ k_this = 0
    /\ k_arg = 0
    /\ k_ret = 0
    /\ k_last = 0
    /\ k_calls = 0
    /\ k_slept = 0

\* the state in which download_cryptocompare_csvs is entered
InitRun ==
    /\ pc = "start"
    /\ listing \in Listings
    /\ newFiles = <<>>
    /\ \E cat \in Catalogs :
          /\ exchanges = cat.exchanges
          /\ available_cryptocurrencies = cat.available
    /\ done = {}
    /\ exIdx = 1
    /\ exchange_df = EmptyFrame
    /\ curIdx = 1
    /\ ccys = {}
    /\ ccy = ""
    /\ ccy_df = NoDataFrame
    /\ ex_df = EmptyFrame
    /\ error = "none"
    /\ fetchLog = {}
    /\ nFetch = 0
    /\ sinceFetch = 0
    /\ aggregated = {}
    /\ written = {}
    /\ filesAtStart = {}
    /\ RelabelIdle
    /\ KrakenIdle

NextRun ==
    \/ StartRun
    \/ SkipDone
    \/ BeginExchange
    \/ FinishRun
    \/ SkipCurrency
    \/ BeginCurrency
    \/ Fetch
    \/ FetchRaises
    \/ SkipEmpty
    \/ MergeFetched
    \/ MergeRaises
    \/ RelabelRaises
    \/ Sleep
    \/ EndCurrency
    \/ WriteCsv
    \/ WriteRaises
    \/ NoOutput
    \/ Restart

-----------------------------------------------------------------------------
(* relabel on its own: the inputs are drawn from bounded sets *)

ColNames == {"time", "Date", "close", "volumefrom", "volumeto", "volume_from"}

InitRelabel ==
    /\ RunIdle
    /\ KrakenIdle
    /\ r_pc = "call"
    /\ r_cols \in SeqsUpTo(ColNames, MaxCols)
    /\ r_affix \in {"AB", "USD"}
    /\ r_sep \in {"_", "-"}
    /\ r_pre \in BOOLEAN
    /\ r_out = <<>>

\* lines 33-46
R_Relabel ==
    /\ r_pc = "call"
    /\ RelabelOK(r_cols, r_sep)
    /\ r_out' = RelabelCols(r_cols, r_affix, r_sep, r_pre)
    /\ r_pc' = "out"
    /\ UNCHANGED <<runVars, krakenVars, r_cols, r_affix, r_sep, r_pre>>

\* line 39: ValueError, the frame has no Date column after the first rename
R_Raises ==
    /\ r_pc = "call"
    /\ ~RelabelOK(r_cols, r_sep)
    /\ r_pc' = "raised"
    /\ UNCHANGED <<runVars, krakenVars, r_cols, r_affix, r_sep, r_pre, r_out>>

NextRelabel ==
    \/ R_Relabel
    \/ R_Raises

-----------------------------------------------------------------------------
(* The kraken pagination loop: concat_kraken_data over download_kraken_pair *)

\* line 205: range(10)
MaxChunks == 10

InitKraken ==
    /\ RunIdle
    /\ RelabelIdle
    /\ k_pc = "loop"
    /\ k_i = 0
    /\ since \in 0..MaxCursor
    /\ k_df = 0
    /\ k_this = 0
    /\ k_arg = 0
    /\ k_ret = 0
    /\ k_last = since
    /\ k_calls = 0
    /\ k_slept = 0

\* line 207: download_kraken_pair is called with the current cursor
K_Call ==
    /\ k_calls' = k_calls + 1
    /\ k_arg' = since
    /\ k_ret' = k_last
    /\ k_slept' = 0

\* lines 186-198, 208-211: a chunk with rows is appended, then the loop sleeps
K_Chunk ==
    /\ k_pc = "loop"
    /\ k_i < MaxChunks
    /\ K_Call
    /\ \E n \in 1..MaxRows, last \in 1..MaxCursor :
          /\ k_this' = n
          /\ k_df' = k_df + n
          /\ since' = last
          /\ k_last' = last
    /\ k_pc' = "sleep"
    /\ UNCHANGED <<runVars, relabelVars, k_i>>

\* line 211, then the next iteration of line 205
K_Sleep ==
    /\ k_pc = "sleep"
    /\ k_slept' = SleepSecs
    /\ k_i' = k_i + 1
    /\ k_pc' = "loop"
    /\ UNCHANGED <<runVars, relabelVars, since, k_df, k_this, k_arg, k_ret,
                   k_last, k_calls>>

\* lines 191-198 with no record for the pair, 208-209: ex_df is returned
K_EmptyChunk ==
    /\ k_pc = "loop"
    /\ k_i < MaxChunks
    /\ K_Call
    /\ \E last \in 1..MaxCursor : since' = last /\ k_last' = last
    /\ k_this' = 0
    /\ k_pc' = "returned"
    /\ UNCHANGED <<runVars, relabelVars, k_i, k_df>>

\* lines 189-190: result is empty; `last` is read before line 193 assigns
\* it, so the return statement raises UnboundLocalError
K_NoResult ==
    /\ k_pc = "loop"
    /\ k_i < MaxChunks
    /\ K_Call
    /\ k_this' = 0
    /\ k_pc' = "raised"
    /\ UNCHANGED <<runVars, relabelVars, k_i, since, k_df, k_last>>

\* line 212: the loop ran MaxChunks times
K_Exhausted ==
    /\ k_pc = "loop"
    /\ k_i = MaxChunks
    /\ k_pc' = "returned"
    /\ UNCHANGED <<runVars, relabelVars, k_i, since, k_df, k_this, k_arg, k_ret,
                   k_last, k_calls, k_slept>>

NextKraken ==
    \/ K_Chunk
    \/ K_Sleep
    \/ K_EmptyChunk
    \/ K_NoResult
    \/ K_Exhausted

-----------------------------------------------------------------------------
(* The module's three entry points: the run loop (line 248), relabel, and  *)
(* concat_kraken_data (its call at line 250).  A behaviour runs one; the   *)
(* variables of the other two stay idle.                                   *)

Init == InitRun \/ InitRelabel \/ InitKraken

Next == NextRun \/ NextRelabel \/ NextKraken

Spec == Init /\ [][Next]_vars

-----------------------------------------------------------------------------
(* Properties *)

DisjointCols(l, r) == Range(l.cols) \cap Range(r.cols) \subseteq {"Date"}

\* out is the outer join of l and r on the date
OuterJoined(l, r, out) ==
    /\ Dates(out) = Dates(l) \cup Dates(r)
    /\ Len(out.cols) = Len(l.cols) + Len(NonDate(r.cols))
    /\ \A d \in Dates(out) :
          /\ Len(out.rows[d]) = Len(out.cols)
          /\ d \in Dates(l) => SubSeq(out.rows[d], 1, Len(l.cols)) = l.rows[d]
          /\ d \in Dates(r) =>
                SubSeq(out.rows[d], Len(l.cols) + 1, Len(out.cols))
                    = Pick(r.rows[d], NonDate(r.cols))
          /\ d \notin Dates(l) =>
                \A j \in 1..Len(l.cols) :
                    l.cols[j] # "Date" => out.rows[d][j] = NoValue
          /\ d \notin Dates(r) =>
                \A j \in (Len(l.cols) + 1)..Len(out.cols) :
                    out.rows[d][j] = NoValue

\* C1: both merges of the run loop are outer joins on Date.  Whenever the
\* per-symbol merge (line 120) or the per-currency merge (lines 158-159) joins
\* two tables whose labels are disjoint except for Date, the merged table has
\* exactly the dates of either input, keeps each input's cells, and holds
\* "no value" in an input's columns on the dates that input lacks.
C1_OuterJoin ==
    [][ /\ (pc = "fetched" /\ pc' = "sleep" /\ ~Empty(ccy_df)
              /\ DisjointCols(ex_df, relabel(ccy_df, ccy, "_", TRUE)))
           => OuterJoined(ex_df, relabel(ccy_df, ccy, "_", TRUE), ex_df')
        /\ (pc = "symbol" /\ pc' = "currency"
              /\ DisjointCols(exchange_df, CcysDf))
           => OuterJoined(exchange_df, CcysDf, exchange_df')
      ]_vars

\* C1 witness: both currencies of an exchange were merged, and a date the
\* first currency's table lacks kept its row, with no value in that table's
\* columns and a value in the second currency's.
C1_Witness ==
    /\ pc = "currency"
    /\ ~CurrenciesLeft(curIdx)
    /\ Len(exchange_df.cols) = 7
    /\ \E d \in Dates(exchange_df) :
          /\ exchange_df.rows[d][2] = NoValue
          /\ exchange_df.rows[d][5] # NoValue

\* C2: an exchange that is in the completed list computed at the start of the
\* run is never fetched, never aggregated and never written by that run.
C2_DoneSkipped ==
    \A e \in ExchangeNames \cap done :
        /\ \A rec \in fetchLog : rec.exchange # e
        /\ e \notin aggregated
        /\ e \notin written

\* C2 witness: a run ended in which Kraken was in the completed list while
\* another exchange was fetched.
C2_Witness ==
    /\ pc = "done"
    /\ "Kraken" \in done
    /\ fetchLog # {}

\* the symbols of an exchange that trade into a currency and are known
ExpectedSymbols(i, currency) ==
    {c \in DOMAIN exchanges[i].pairs : currency \in exchanges[i].pairs[c]}
        \cap available_cryptocurrencies

FetchedSymbols(i, currency) ==
    {rec.symbol : rec \in {x \in fetchLog : /\ x.exchange = exchanges[i].name
                                             /\ x.currency = currency}}

\* C3: the symbols fetched for a target currency of an exchange are exactly
\* the exchange's symbols that trade into that currency and are known: no
\* other symbol is ever fetched, and a run that ends normally has fetched all
\* of them for every exchange it did not skip.
C3_SymbolsPerCurrency ==
    /\ \A i \in 1..Len(exchanges), k \in 1..Len(target_currencies) :
          FetchedSymbols(i, target_currencies[k])
              \subseteq ExpectedSymbols(i, target_currencies[k])
    /\ pc = "done" =>
          \A i \in 1..Len(exchanges), k \in 1..Len(target_currencies) :
              exchanges[i].name \notin done =>
                  FetchedSymbols(i, target_currencies[k])
                      = ExpectedSymbols(i, target_currencies[k])

\* C4: a failure while fetching one symbol (a response that is malformed or
\* cannot be parsed) never ends the run.
C4_FetchFailureIsolated == error \notin {"fetch", "relabel"}

\* C5: a history fetch that is not the first of its run happens only after a
\* pacing delay of at least 1 since the fetch before it, also when that fetch
\* returned an empty series; the same holds of the calls of the kraken loop.
C5_Pacing ==
    [][ /\ (nFetch' = nFetch + 1 /\ nFetch > 0) => sinceFetch >= 1
        /\ (k_calls' = k_calls + 1 /\ k_calls > 0) => k_slept >= 1
      ]_vars

\* C5 witness: a second or later fetch of a currency was made after every
\* earlier fetch of that currency returned an empty series.
C5_Witness ==
    /\ pc = "fetched"
    /\ nFetch >= 2
    /\ ex_df = EmptyFrame
    /\ Cardinality(PairsForCurrency(exchanges[exIdx].pairs, Currency)
                      \cap available_cryptocurrencies)
          >= Cardinality(ccys) + 2

\* C6: every exchange whose csv an earlier run wrote is in the completed list
\* the next run computes at its start.
C6_PrevOutputsDone ==
    pc \notin {"start", "idle"} => filesAtStart \subseteq done

\* C7: a csv exists for an exchange only if it was written after the loop
\* over all target currencies of that exchange had finished.
C7_WriteOnCompletion ==
    \A e \in DOMAIN newFiles : newFiles[e] = target_currencies

\* C7 witness: the run is in the middle of an exchange's symbols while the
\* csv of an exchange it finished earlier exists.
C7_Witness ==
    /\ pc = "symbol"
    /\ written # {}
    /\ Exchange \notin written

\* C9: the column labels of the exchange table are pairwise distinct.
C9_DistinctColumns == Distinct(exchange_df.cols)

-----------------------------------------------------------------------------
(* Properties of relabel *)

\* the label the claim expects of a column before affixing, with the
\* canonical names spelled with an underscore
CanonUnderscore(col) ==
    CASE col = "volumefrom" -> "volume_from"
      [] col = "volumeto"   -> "volume_to"
      [] col = "time"       -> "Date"
      [] OTHER              -> col

\* the same, with the canonical names spelled with the separator
CanonWithSep(col) ==
    CASE col = "volumefrom" -> "volume" \o r_sep \o "from"
      [] col = "volumeto"   -> "volume" \o r_sep \o "to"
      [] col = "time"       -> "Date"
      [] OTHER              -> col

ExpectedLabel(c) ==
    IF c = "Date" THEN "Date"
    ELSE IF r_pre THEN r_affix \o r_sep \o c ELSE c \o r_sep \o r_affix

-----------------------------------------------------------------------------
(* Properties of the kraken loop *)

\* C10: the loop makes at most MaxChunks fetch calls, passes each call the
\* cursor the call before it returned, and when a call yields an empty chunk
\* it returns the series accumulated so far instead of failing.
C10_Pagination ==
    /\ k_calls <= MaxChunks
    /\ k_calls >= 1 => k_arg = k_ret
    /\ (k_calls >= 1 /\ k_this = 0) => k_pc = "returned"

====
